---- MODULE Spec2Model ----
(***************************************************************************)
(* A state-machine model of demo/data_processor.py: the DataProcessor      *)
(* cache (process, process_batch, remove_expired, clear_cache, the         *)
(* cache_stats property) and the asyncio batch variant; of                 *)
(* demo/user_service.py: the UserService registry and its listeners; and   *)
(* of demo/api_controller.py with demo/user.py: the ApiController facade   *)
(* over the registry and the User records it creates and updates.          *)
(*                                                                         *)
(* The wall clock (datetime.now / time.time) is the variable `now`. It     *)
(* moves only in ClockStep, between two handlers: every clock read inside  *)
(* one handler sees the same value. datetime.now() is naive local time     *)
(* and is not monotonic, so ClockStep may set it to any value in range.    *)
(***************************************************************************)
EXTENDS Integers, Sequences, FiniteSets, TLC

\* ------------------------------------------------------------------ bounds

\* Largest cache_size a processor is constructed with.
MaxCacheSize == 2
\* Clock readings are 0..MaxTime.
MaxTime == 1
\* Total number of process calls (BaseProcessor._processing_count) explored.
MaxCalls == 4
\* Longest data_list given to process_batch.
MaxBatchLen == 2
\* Longest data_list given to process_batch_async.
MaxTasks == 3
\* Largest concurrency given to process_batch_async.
MaxConcurrency == 2
\* Largest max_users a registry is constructed with.
MaxUsers == 2
\* Most listener registrations on a registry.
MaxListeners == 2
\* Calls made through the facade's request counter (_request_count).
MaxRequests == 3
\* Most users in a registry whose listing is paged.
MaxListed == 5

\* ------------------------------------------------------------------ inputs

\* An input of process: a Python int or a Python str (a sequence of
\* one-character strings).
IntData(n) == [kind |-> "int", num |-> n, text |-> <<>>]

StrData(s) == [kind |-> "str", num |-> 0, text |-> s]

\* The inputs explored: the ints 1 and 12, the strings "1" and "a".
\* str(1) and str("1") are the same text, so two inputs share a cache key.
Data == {IntData(1), IntData(12), StrData(<<"1">>), StrData(<<"a">>)}

DigitChar(n) ==
    CASE n = 0 -> "0" [] n = 1 -> "1" [] n = 2 -> "2" [] n = 3 -> "3"
      [] n = 4 -> "4" [] n = 5 -> "5" [] n = 6 -> "6" [] n = 7 -> "7"
      [] n = 8 -> "8" [] n = 9 -> "9"

\* ord(c) of the characters in use.
CharCode(c) ==
    CASE c = "0" -> 48 [] c = "1" -> 49 [] c = "2" -> 50 [] c = "3" -> 51
      [] c = "4" -> 52 [] c = "5" -> 53 [] c = "6" -> 54 [] c = "7" -> 55
      [] c = "8" -> 56 [] c = "9" -> 57 [] c = "a" -> 97

\* The decimal digits of a natural number, most significant first.
RECURSIVE Digits(_)
Digits(n) ==
    IF n < 10 THEN <<DigitChar(n)>>
    ELSE Digits(n \div 10) \o <<DigitChar(n % 10)>>

\* str(data): an int prints as its decimal digits, a str is itself.
Str(d) == IF d.kind = "int" THEN Digits(d.num) ELSE d.text

\* hash(s) of a str: a deterministic function of the text within one
\* process, modelled as a polynomial hash of the character codes.
RECURSIVE HashStr(_)
HashStr(s) ==
    IF s = <<>> THEN 0
    ELSE (HashStr(SubSeq(s, 1, Len(s) - 1)) * 31 + CharCode(s[Len(s)])) % 1000003

\* hashlib.md5(s.encode()).hexdigest(): a second deterministic digest of the
\* text, independent of hash().
RECURSIVE Md5Hex(_)
Md5Hex(s) ==
    IF s = <<>> THEN 7
    ELSE (Md5Hex(SubSeq(s, 1, Len(s) - 1)) * 131 + CharCode(s[Len(s)])) % 999983

\* ------------------------------------------------------------------ state

VARIABLES
    cache,             \* _cache: the entries in dict (insertion) order
    stats,             \* _stats: CacheStats(hits, misses, evictions, size)
    max_cache_size,    \* _max_cache_size
    validator,         \* _validator
    processing_count,  \* BaseProcessor._processing_count
    now,               \* the wall clock
    last,              \* the last call made on the processor and its outcome
    data_list,         \* process_batch_async: its data_list argument
    concurrency,       \* process_batch_async: its concurrency argument
    sem,               \* the semaphore's free permits (Semaphore._value)
    waiters,           \* the tasks blocked in acquire, in arrival order
    task,              \* per position of data_list: where the task is, its outcome
    users,             \* UserService._users: the records in dict (insertion) order
    listeners,         \* UserService.__listeners, in registration order
    max_users,         \* UserService.max_users
    request_count,     \* ApiController._request_count
    ulast              \* the last call on the registry or the facade, its outcome

procVars == <<cache, stats, max_cache_size, validator, processing_count, now, last>>

asyncVars == <<data_list, concurrency, sem, waiters, task>>

userVars == <<users, listeners, max_users, request_count, ulast>>

\* The processor's fields without the clock.
cacheVars == <<cache, stats, max_cache_size, validator, processing_count, last>>

vars == <<cache, stats, max_cache_size, validator, processing_count, now, last,
          data_list, concurrency, sem, waiters, task,
          users, listeners, max_users, request_count, ulast>>

\* validator=None, and a validator that accepts exactly the str inputs.
NoValidator == [present |-> FALSE, accepts |-> {}]

StrOnlyValidator == [present |-> TRUE, accepts |-> {d \in Data : d.kind = "str"}]

Validators == {NoValidator, StrOnlyValidator}

\* DataValidator.validate(data)
Validate(v, d) == d \in v.accepts

NoData == [kind |-> "none", num |-> 0, text |-> <<>>]

\* The record kept of a call: what was called, with what, what it returned
\* (ret: the entries returned, count: an int result), what it raised, whether
\* the validator was consulted.
Call(op, d, items, n, ret, count, exc, consulted) ==
    [op |-> op, data |-> d, items |-> items, arg |-> n, ret |-> ret,
     count |-> count, exc |-> exc, consulted |-> consulted]

NoRaise == "none"

InvalidData == "ValueError: Invalid data"

EmptyMin == "ValueError: min() arg is an empty sequence"

ZeroStep == "ValueError: range() arg 3 must not be zero"

\* ------------------------------------------------------------------ cache

\* CacheStats()
NewStats == [hits |-> 0, misses |-> 0, evictions |-> 0, size |-> 0]

\* _get_cache_key: f"data_{hash(str(data))}"
GetCacheKey(d) == [prefix |-> "data_", hash |-> HashStr(Str(d))]

\* _do_processing: f"processed_{md5(str(data))}"
DoProcessing(d) == [prefix |-> "processed_", digest |-> Md5Hex(Str(d))]

\* cache_key in self._cache
InCache(c, key) == \E i \in 1..Len(c) : c[i].id = key

\* self._cache[cache_key]
Lookup(c, key) == c[CHOOSE i \in 1..Len(c) : c[i].id = key]

\* ProcessedData.age_seconds at clock reading t
AgeSeconds(e, t) == t - e.timestamp

IsExpiredGe(e, ttl, t) == AgeSeconds(e, t) >= ttl

\* ProcessedData.is_expired
IsExpired(e, ttl, t) == AgeSeconds(e, t) > ttl

\* The sequence c without its i-th element: del self._cache[key].
RemoveAt(c, i) == SubSeq(c, 1, i - 1) \o SubSeq(c, i + 1, Len(c))

FirstInsertedIndex(c) == 1

\* min(self._cache.keys(), key=lambda k: self._cache[k].timestamp): the
\* first entry, in dict order, among those of least timestamp.
OldestIndex(c) ==
    CHOOSE i \in 1..Len(c) :
        /\ \A j \in 1..Len(c) : c[i].timestamp <= c[j].timestamp
        /\ \A j \in 1..(i - 1) : c[j].timestamp > c[i].timestamp

\* self._cache[key] = data: replaces in place when the key is present,
\* appends otherwise.
Store(c, key, data) ==
    IF InCache(c, key)
    THEN [i \in 1..Len(c) |-> IF c[i].id = key THEN data ELSE c[i]]
    ELSE Append(c, data)

AddToCacheNoEvict(c, s, maxsize, key, data) ==
    [cache |-> Store(c, key, data), stats |-> s, exc |-> NoRaise]

AddToCacheNoStore(c, s, maxsize, key, data) ==
    [cache |-> c, stats |-> s, exc |-> NoRaise]

\* _add_to_cache
AddToCache(c, s, maxsize, key, data) ==
    IF Len(c) >= maxsize
    THEN IF c = <<>>
         THEN [cache |-> c, stats |-> s, exc |-> EmptyMin]
         ELSE [cache |-> Store(RemoveAt(c, OldestIndex(c)), key, data),
               stats |-> [s EXCEPT !.evictions = @ + 1],
               exc |-> NoRaise]
    ELSE [cache |-> Store(c, key, data), stats |-> s, exc |-> NoRaise]

\* The outcome of a miss once _add_to_cache has run: process returns the new
\* entry unless _add_to_cache raised.
Inserted(added, n1, result, consulted) ==
    [cache |-> added.cache, stats |-> added.stats, count |-> n1,
     ret |-> IF added.exc = NoRaise THEN <<result>> ELSE <<>>,
     exc |-> added.exc, consulted |-> consulted]

ProcessRevalidates(c, s, n, maxsize, v, d, t) ==
    LET key == GetCacheKey(d)
        n1 == n + 1
        result == [id |-> key, original_data |-> d,
                   processed_data |-> DoProcessing(d),
                   processing_time |-> t - t, timestamp |-> t]
    IN  IF v.present /\ ~Validate(v, d)
        THEN [cache |-> c, stats |-> [s EXCEPT !.misses = @ + 1], count |-> n1,
              ret |-> <<>>, exc |-> InvalidData, consulted |-> TRUE]
        ELSE IF InCache(c, key)
        THEN [cache |-> c, stats |-> [s EXCEPT !.hits = @ + 1], count |-> n1,
              ret |-> <<Lookup(c, key)>>, exc |-> NoRaise, consulted |-> v.present]
        ELSE Inserted(AddToCache(c, [s EXCEPT !.misses = @ + 1], maxsize, key, result),
                      n1, result, v.present)

ProcessValidatesLate(c, s, n, maxsize, v, d, t) ==
    LET key == GetCacheKey(d)
        n1 == n + 1
        result == [id |-> key, original_data |-> d,
                   processed_data |-> DoProcessing(d),
                   processing_time |-> t - t, timestamp |-> t]
    IN  IF InCache(c, key)
        THEN [cache |-> c, stats |-> [s EXCEPT !.hits = @ + 1], count |-> n1,
              ret |-> <<Lookup(c, key)>>, exc |-> NoRaise, consulted |-> FALSE]
        ELSE IF v.present /\ ~Validate(v, d)
        THEN [Inserted(AddToCache(c, [s EXCEPT !.misses = @ + 1], maxsize, key, result),
                       n1, result, TRUE)
                 EXCEPT !.ret = <<>>, !.exc = InvalidData]
        ELSE Inserted(AddToCache(c, [s EXCEPT !.misses = @ + 1], maxsize, key, result),
                      n1, result, v.present)

\* process(data) at clock reading t, as a function of the processor's
\* fields: the fields after the call, what it returned or raised.
Process(c, s, n, maxsize, v, d, t) ==
    LET key == GetCacheKey(d)
        n1 == n + 1
    IN  IF InCache(c, key)
        THEN [cache |-> c, stats |-> [s EXCEPT !.hits = @ + 1], count |-> n1,
              ret |-> <<Lookup(c, key)>>, exc |-> NoRaise, consulted |-> FALSE]
        ELSE LET s1 == [s EXCEPT !.misses = @ + 1]
             IN  IF v.present /\ ~Validate(v, d)
                 THEN [cache |-> c, stats |-> s1, count |-> n1,
                       ret |-> <<>>, exc |-> InvalidData, consulted |-> TRUE]
                 ELSE LET result == [id |-> key,
                                     original_data |-> d,
                                     processed_data |-> DoProcessing(d),
                                     processing_time |-> t - t,
                                     timestamp |-> t]
                      IN  Inserted(AddToCache(c, s1, maxsize, key, result),
                                   n1, result, v.present)

\* The outcome r of one more process call, with its result appended to the
\* results so far.
Collect(results, r) ==
    [cache |-> r.cache, stats |-> r.stats, count |-> r.count,
     ret |-> results \o r.ret, exc |-> r.exc]

\* [self.process(item) for item in batch], continuing from st; an exception
\* ends it and leaves what the earlier items did.
RECURSIVE ProcessItems(_, _, _, _, _)
ProcessItems(st, items, maxsize, v, t) ==
    IF items = <<>> \/ st.exc # NoRaise THEN st
    ELSE ProcessItems(Collect(st.ret, Process(st.cache, st.stats, st.count,
                                              maxsize, v, Head(items), t)),
                      Tail(items), maxsize, v, t)

\* range(i, stop, step) for step # 0
RECURSIVE PyRange(_, _, _)
PyRange(i, stop, step) ==
    IF (step > 0 /\ i < stop) \/ (step < 0 /\ i > stop)
    THEN <<i>> \o PyRange(i + step, stop, step)
    ELSE <<>>

\* data_list[i:j] for 0 <= i (0-based, j clipped to the length)
PySlice(list, i, j) ==
    SubSeq(list, i + 1, IF j < Len(list) THEN j ELSE Len(list))

CreateBatchesDropsTail(items, batch_size) ==
    LET starts == PyRange(0, Len(items) - batch_size + 1, batch_size)
    IN  [k \in 1..Len(starts) |-> PySlice(items, starts[k], starts[k] + batch_size)]

\* _create_batches, for batch_size # 0: the chunks in order
CreateBatches(items, batch_size) ==
    LET starts == PyRange(0, Len(items), batch_size)
    IN  [k \in 1..Len(starts) |-> PySlice(items, starts[k], starts[k] + batch_size)]

\* The loop of process_batch over the chunks.
RECURSIVE ProcessBatches(_, _, _, _, _)
ProcessBatches(st, batches, maxsize, v, t) ==
    IF batches = <<>> \/ st.exc # NoRaise THEN st
    ELSE ProcessBatches(ProcessItems(st, Head(batches), maxsize, v, t),
                        Tail(batches), maxsize, v, t)

\* process_batch(items, batch_size) at clock reading t. A raise returns
\* nothing. batch_size = 0 makes range() raise before any item is processed.
ProcessBatch(c, s, n, maxsize, v, items, batch_size, t) ==
    LET st0 == [cache |-> c, stats |-> s, count |-> n, ret |-> <<>>, exc |-> NoRaise]
    IN  IF batch_size = 0 THEN [st0 EXCEPT !.exc = ZeroStep]
        ELSE LET st == ProcessBatches(st0, CreateBatches(items, batch_size),
                                      maxsize, v, t)
             IN  IF st.exc = NoRaise THEN st ELSE [st EXCEPT !.ret = <<>>]

\* The positions of the entries remove_expired finds expired.
ExpiredIndexes(c, ttl, t) == {i \in 1..Len(c) : IsExpired(c[i], ttl, t)}

\* The entries of c at the positions not in gone, in order.
RECURSIVE Without(_, _)
Without(c, gone) ==
    IF c = <<>> THEN <<>>
    ELSE Without(SubSeq(c, 1, Len(c) - 1), gone)
         \o (IF Len(c) \in gone THEN <<>> ELSE <<c[Len(c)]>>)

RemoveExpiredUncounted(c, s, ttl, t) ==
    LET expired == ExpiredIndexes(c, ttl, t)
    IN  [cache |-> Without(c, expired), stats |-> s, count |-> Cardinality(expired)]

\* remove_expired(ttl_seconds) at clock reading t
RemoveExpired(c, s, ttl, t) ==
    LET expired == ExpiredIndexes(c, ttl, t)
    IN  [cache |-> Without(c, expired),
         stats |-> [s EXCEPT !.evictions = @ + Cardinality(expired)],
         count |-> Cardinality(expired)]

ClearCacheResetsEvictions(c, s) ==
    [cache |-> <<>>, stats |-> [s EXCEPT !.evictions = 0, !.size = 0]]

\* clear_cache: the eviction counter grows by the stored stats.size
ClearCache(c, s) ==
    [cache |-> <<>>, stats |-> [s EXCEPT !.evictions = @ + s.size, !.size = 0]]

\* The cache_stats property: refreshes stats.size, returns the stats.
CacheStats(c, s) == [s EXCEPT !.size = Len(c)]

\* -------------------------------------------------------------- registry

\* An email that passes User._validate_email, as its characters.
GoodEmail == <<"a", "@", "b", ".", "c", "o">>

\* An absent optional value (None) is the empty sequence, a present one a
\* sequence of length 1.
None == <<>>

\* User(id, name, email, role) built at clock reading t: __post_init__ sets
\* created_at, age defaults to None, updated_at starts as None.
NewUser(id, name, email, role, t) ==
    [id |-> id, name |-> name, email |-> email, role |-> role, age |-> None,
     created_at |-> <<t>>, updated_at |-> None]

\* The identifiers and names of the users explored.
Ids == {"u1", "u2", "u3"}

Names == {"A", "B"}

\* The records handed to add_user: two records per identifier, so that a
\* second add under an identifier carries a different record.
SomeUsers == {NewUser(id, name, GoodEmail, "user", 0) : id \in Ids, name \in Names}

\* UserRole: the values of the role enumeration
UserRole == {"admin", "user", "guest"}

\* UserEvent
USER_ADDED == "user_added"

USER_REMOVED == "user_removed"

\* The listeners explored: on_user_event of "ok" returns, that of "raiser"
\* raises an Exception. One listener may be registered more than once.
Listeners == {"ok", "raiser"}

ListenerRaises(l) == l = "raiser"

MaximumUsers == "ValueError: Maximum users reached"

\* user_id in self._users
HasUser(us, id) == \E i \in 1..Len(us) : us[i].id = id

\* self._users[user_id]
UserAt(us, id) == us[CHOOSE i \in 1..Len(us) : us[i].id = id]

ListenerError == "RuntimeError: listener failed"

\* One call listener.on_user_event(event, user), of the i-th listener.
Delivery(ls, event, user, i) ==
    [listener |-> ls[i], pos |-> i, event |-> event, user |-> user]

RECURSIVE NotifyListenersUnguarded(_, _, _, _)
NotifyListenersUnguarded(ls, event, user, i) ==
    IF i > Len(ls) THEN [delivered |-> <<>>, logged |-> <<>>, exc |-> NoRaise]
    ELSE IF ListenerRaises(ls[i])
         THEN [delivered |-> <<Delivery(ls, event, user, i)>>, logged |-> <<>>,
               exc |-> ListenerError]
         ELSE LET rest == NotifyListenersUnguarded(ls, event, user, i + 1)
              IN  [delivered |-> <<Delivery(ls, event, user, i)>> \o rest.delivered,
                   logged |-> rest.logged, exc |-> rest.exc]

\* _notify_listeners, the loop from the i-th listener on: each listener is
\* called with (event, user); an Exception it raises is caught and logged
\* and the loop goes on. delivered: the calls made, in order; logged: the
\* positions whose error was logged; exc: what the loop itself raised.
RECURSIVE NotifyListeners(_, _, _, _)
NotifyListeners(ls, event, user, i) ==
    IF i > Len(ls) THEN [delivered |-> <<>>, logged |-> <<>>, exc |-> NoRaise]
    ELSE LET rest == NotifyListeners(ls, event, user, i + 1)
         IN  [delivered |-> <<Delivery(ls, event, user, i)>> \o rest.delivered,
              logged |-> (IF ListenerRaises(ls[i]) THEN <<i>> ELSE <<>>)
                         \o rest.logged,
              exc |-> rest.exc]

\* The outcome of a registry call: the mapping after it, the bool it
\* returned (ok), the record it returned (found), what it raised, the
\* listener calls it made and the listener errors it logged.
Outcome(us, ok, found, exc, notified) ==
    [users |-> us, ok |-> ok, found |-> found, exc |-> exc,
     delivered |-> notified.delivered, logged |-> notified.logged]

Silent == [delivered |-> <<>>, logged |-> <<>>, exc |-> NoRaise]

\* The outcome of a call that changed the mapping to us and then notified
\* the listeners: it returns True unless the notification raised.
Notified(us, notified) ==
    Outcome(us, notified.exc = NoRaise, None, notified.exc, notified)

AddUserNoCapacityCheck(us, ls, maxu, user) ==
    IF HasUser(us, user.id) THEN Outcome(us, FALSE, None, NoRaise, Silent)
    ELSE Notified(Append(us, user), NotifyListeners(ls, USER_ADDED, user, 1))

AddUserCapacityFirst(us, ls, maxu, user) ==
    IF Len(us) >= maxu THEN Outcome(us, FALSE, None, MaximumUsers, Silent)
    ELSE IF HasUser(us, user.id) THEN Outcome(us, FALSE, None, NoRaise, Silent)
    ELSE Notified(Append(us, user), NotifyListeners(ls, USER_ADDED, user, 1))

AddUserStoresThenChecks(us, ls, maxu, user) ==
    IF HasUser(us, user.id) THEN Outcome(us, FALSE, None, NoRaise, Silent)
    ELSE IF Len(us) >= maxu
    THEN Outcome(Append(us, user), FALSE, None, MaximumUsers, Silent)
    ELSE Notified(Append(us, user), NotifyListeners(ls, USER_ADDED, user, 1))

AddUserSilently(us, ls, maxu, user) ==
    IF HasUser(us, user.id) THEN Outcome(us, FALSE, None, NoRaise, Silent)
    ELSE IF Len(us) >= maxu THEN Outcome(us, FALSE, None, MaximumUsers, Silent)
    ELSE Notified(Append(us, user), Silent)

\* add_user(user)
AddUser(us, ls, maxu, user) ==
    IF HasUser(us, user.id) THEN Outcome(us, FALSE, None, NoRaise, Silent)
    ELSE IF Len(us) >= maxu THEN Outcome(us, FALSE, None, MaximumUsers, Silent)
    ELSE Notified(Append(us, user), NotifyListeners(ls, USER_ADDED, user, 1))

KeyError == "KeyError"

FindUserBySubscript(us, id) ==
    IF HasUser(us, id) THEN Outcome(us, FALSE, <<UserAt(us, id)>>, NoRaise, Silent)
    ELSE Outcome(us, FALSE, None, KeyError, Silent)

\* find_user(user_id): self._users.get(user_id)
FindUser(us, id) ==
    Outcome(us, FALSE, IF HasUser(us, id) THEN <<UserAt(us, id)>> ELSE None,
            NoRaise, Silent)

RemoveUserUnchecked(us, ls, id) ==
    IF HasUser(us, id)
    THEN Notified(SelectSeq(us, LAMBDA u : u.id # id),
                  NotifyListeners(ls, USER_REMOVED, UserAt(us, id), 1))
    ELSE Outcome(us, FALSE, None, KeyError, Silent)

RemoveUserPopsFirst(us, ls, id) ==
    IF HasUser(us, id)
    THEN Notified(Tail(us), NotifyListeners(ls, USER_REMOVED, Head(us), 1))
    ELSE Outcome(us, FALSE, None, NoRaise, Silent)

\* remove_user(user_id)
RemoveUser(us, ls, id) ==
    IF HasUser(us, id)
    THEN Notified(SelectSeq(us, LAMBDA u : u.id # id),
                  NotifyListeners(ls, USER_REMOVED, UserAt(us, id), 1))
    ELSE Outcome(us, FALSE, None, NoRaise, Silent)

\* The record kept of a call on the registry or on the facade: what was
\* called with which user, identifier and request, and its outcome.
UCall(op, user, id, req, out, resp) ==
    [op |-> op, user |-> user, id |-> id, req |-> req, ok |-> out.ok,
     found |-> out.found, exc |-> out.exc, delivered |-> out.delivered,
     logged |-> out.logged, resp |-> resp]

NoId == ""

NoRequest == <<>>

NoResponse == <<>>

\* UserService(max_users): an empty registry without listeners. The
\* constructor stores any int as max_users.
NewUserService ==
    /\ users = <<>>
    /\ listeners = <<>>
    /\ max_users \in (-1)..MaxUsers
    /\ ulast = UCall("init", None, NoId, NoRequest,
                     Outcome(<<>>, FALSE, None, NoRaise, Silent), NoResponse)

\* No registry and no facade are in use.
NoUsers ==
    /\ users = <<>>
    /\ listeners = <<>>
    /\ max_users = 0
    /\ request_count = 0
    /\ ulast = UCall("init", None, NoId, NoRequest,
                     Outcome(<<>>, FALSE, None, NoRaise, Silent), NoResponse)

\* ---------------------------------------------------------------- actions

\* Sequences over S of length at most n.
SeqsUpTo(S, n) == UNION {[1..k -> S] : k \in 0..n}

\* DataProcessor(validator, cache_size): the constructor stores any int.
NewProcessor ==
    /\ cache = <<>>
    /\ stats = NewStats
    /\ max_cache_size \in (-1)..MaxCacheSize
    /\ validator \in Validators
    /\ processing_count = 0
    /\ now = 0
    /\ last = Call("init", NoData, <<>>, 0, <<>>, 0, NoRaise, FALSE)

\* No process_batch_async call is in progress.
NoAsync ==
    /\ data_list = <<>>
    /\ concurrency = 0
    /\ sem = 0
    /\ waiters = <<>>
    /\ task = <<>>

Init == NewProcessor /\ NoAsync /\ NoUsers

\* The wall clock moves, forward or back, between two handlers (and while
\* tasks sleep).
ClockStep ==
    /\ \E t \in 0..MaxTime : t # now /\ now' = t
    /\ UNCHANGED <<cache, stats, max_cache_size, validator, processing_count, last>>
    /\ UNCHANGED asyncVars
    /\ UNCHANGED userVars

ProcessOp ==
    /\ processing_count < MaxCalls
    /\ \E d \in Data :
        \E r \in {Process(cache, stats, processing_count, max_cache_size,
                         validator, d, now)} :
            /\ cache' = r.cache
            /\ stats' = r.stats
            /\ processing_count' = r.count
            /\ last' = Call("process", d, <<>>, 0, r.ret, 0, r.exc, r.consulted)
    /\ UNCHANGED <<max_cache_size, validator, now>>
    /\ UNCHANGED asyncVars
    /\ UNCHANGED userVars

\* The inputs of process_batch explored: two that share a cache key (1 and
\* "1", of which the validator accepts the second only) and a third.
BatchData == {IntData(1), StrData(<<"1">>), StrData(<<"a">>)}

ProcessBatchOp ==
    /\ processing_count <= MaxBatchLen
    /\ \E items \in SeqsUpTo(BatchData, MaxBatchLen - processing_count),
          bs \in 0..MaxBatchLen :
        \E r \in {ProcessBatch(cache, stats, processing_count, max_cache_size,
                               validator, items, bs, now)} :
            /\ cache' = r.cache
            /\ stats' = r.stats
            /\ processing_count' = r.count
            /\ last' = Call("process_batch", NoData, items, bs, r.ret, 0,
                            r.exc, FALSE)
    /\ UNCHANGED <<max_cache_size, validator, now>>
    /\ UNCHANGED asyncVars
    /\ UNCHANGED userVars

RemoveExpiredOp ==
    /\ \E ttl \in (-1)..MaxTime :
        \E r \in {RemoveExpired(cache, stats, ttl, now)} :
            /\ cache' = r.cache
            /\ stats' = r.stats
            /\ last' = Call("remove_expired", NoData, <<>>, ttl, <<>>, r.count,
                            NoRaise, FALSE)
    /\ UNCHANGED <<max_cache_size, validator, processing_count, now>>
    /\ UNCHANGED asyncVars
    /\ UNCHANGED userVars

ClearCacheOp ==
    /\ \E r \in {ClearCache(cache, stats)} :
        /\ cache' = r.cache
        /\ stats' = r.stats
    /\ last' = Call("clear_cache", NoData, <<>>, 0, <<>>, 0, NoRaise, FALSE)
    /\ UNCHANGED <<max_cache_size, validator, processing_count, now>>
    /\ UNCHANGED asyncVars
    /\ UNCHANGED userVars

CacheStatsOp ==
    /\ stats' = CacheStats(cache, stats)
    /\ last' = Call("cache_stats", NoData, <<>>, 0, <<>>, stats'.size, NoRaise,
                    FALSE)
    /\ UNCHANGED <<cache, max_cache_size, validator, processing_count, now>>
    /\ UNCHANGED asyncVars
    /\ UNCHANGED userVars

Next ==
    \/ ClockStep
    \/ ProcessOp
    \/ RemoveExpiredOp
    \/ ClearCacheOp
    \/ CacheStatsOp

Spec == Init /\ [][Next]_vars

\* Sequences of process and remove_expired calls only.
NextInserts ==
    \/ ClockStep
    \/ ProcessOp
    \/ RemoveExpiredOp

SpecInserts == Init /\ [][NextInserts]_vars

ProcessOpB ==
    /\ processing_count < MaxBatchLen
    /\ ProcessOp

NextBatch ==
    \/ ClockStep
    \/ ProcessBatchOp
    \/ ProcessOpB
    \/ RemoveExpiredOp
    \/ ClearCacheOp
    \/ CacheStatsOp

SpecBatch == Init /\ [][NextBatch]_vars

\* ------------------------------------------------- process_batch_async

\* The tasks holding a permit of the semaphore: inside process_async
\* ("sleeping": at its await asyncio.sleep), or handed the permit by a
\* release and not yet resumed ("woken").
Holders == {i \in 1..Len(task) : task[i].pc \in {"woken", "sleeping"}}

\* The tasks inside process_async.
InFlight == {i \in 1..Len(task) : task[i].pc = "sleeping"}

NewTask == [pc |-> "created", ret |-> <<>>, exc |-> NoRaise]

\* The inputs of process_batch_async explored: those of process_batch.
AsyncData == BatchData

\* process_batch_async(data_list, concurrency) on a new processor, up to the
\* await of gather: the semaphore and one task per item exist, none has run.
InitAsync ==
    /\ NewProcessor
    /\ data_list \in SeqsUpTo(AsyncData, MaxTasks)
    /\ concurrency \in 0..MaxConcurrency
    /\ sem = concurrency
    /\ waiters = <<>>
    /\ task = [i \in 1..Len(data_list) |-> NewTask]
    /\ NoUsers

AcquireUnchecked(i) ==
    /\ sem' = sem - 1
    /\ waiters' = waiters
    /\ task' = [task EXCEPT ![i].pc = "sleeping"]

\* Semaphore.acquire as a task's first step: takes a permit when one is
\* free and nobody waits (the task goes on into process_async, up to its
\* await of sleep), queues behind the waiters otherwise.
Acquire(i) ==
    IF sem > 0 /\ waiters = <<>>
    THEN /\ sem' = sem - 1
         /\ waiters' = waiters
         /\ task' = [task EXCEPT ![i].pc = "sleeping"]
    ELSE /\ sem' = sem
         /\ waiters' = Append(waiters, i)
         /\ task' = [task EXCEPT ![i].pc = "waiting"]

\* The event loop starts the tasks gather made in list order.
TaskStart ==
    /\ \E i \in 1..Len(task) :
        /\ task[i].pc = "created"
        /\ \A j \in 1..(i - 1) : task[j].pc # "created"
        /\ Acquire(i)
    /\ UNCHANGED <<procVars, data_list, concurrency>>
    /\ UNCHANGED userVars

ReleaseWithoutHandOff(i, r) ==
    /\ sem' = sem + 1
    /\ waiters' = waiters
    /\ task' = [task EXCEPT ![i] = [pc |-> "done", ret |-> r.ret, exc |-> r.exc]]

\* Semaphore.release by task i, which ends with outcome r: the permit goes
\* to the first waiter when there is one, back to the semaphore otherwise.
Release(i, r) ==
    IF waiters # <<>>
    THEN /\ sem' = sem
         /\ waiters' = Tail(waiters)
         /\ task' = [task EXCEPT ![i] = [pc |-> "done", ret |-> r.ret, exc |-> r.exc],
                                 ![Head(waiters)].pc = "woken"]
    ELSE /\ sem' = sem + 1
         /\ waiters' = waiters
         /\ task' = [task EXCEPT ![i] = [pc |-> "done", ret |-> r.ret, exc |-> r.exc]]

TaskFinishLookupBeforeSleep ==
    /\ \A j \in 1..Len(task) : task[j].pc # "created"
    /\ \E i \in InFlight :
        \E r \in {Process(<<>>, stats, processing_count, max_cache_size + Len(cache),
                         validator, data_list[i], now)} :
            /\ cache' = cache \o r.cache
            /\ stats' = r.stats
            /\ processing_count' = r.count
            /\ Release(i, r)
    /\ UNCHANGED <<max_cache_size, validator, now, last, data_list, concurrency>>
    /\ UNCHANGED userVars

\* A task's sleep ends: it runs process(data) to the end (no await inside),
\* leaves the async with, which releases the permit, and finishes. The
\* event loop runs every first step that gather queued before it serves a
\* timer, so no sleep ends while a task has not started; the sleeps end in
\* any order.
TaskFinish ==
    /\ \A j \in 1..Len(task) : task[j].pc # "created"
    /\ \E i \in InFlight :
        \E r \in {Process(cache, stats, processing_count, max_cache_size,
                         validator, data_list[i], now)} :
            /\ cache' = r.cache
            /\ stats' = r.stats
            /\ processing_count' = r.count
            /\ Release(i, r)
    /\ UNCHANGED <<max_cache_size, validator, now, last, data_list, concurrency>>
    /\ UNCHANGED userVars

\* A waiter that was handed a permit resumes and enters process_async.
TaskResume ==
    /\ \E i \in 1..Len(task) :
        /\ task[i].pc = "woken"
        /\ task' = [task EXCEPT ![i].pc = "sleeping"]
    /\ UNCHANGED <<procVars, data_list, concurrency, sem, waiters>>
    /\ UNCHANGED userVars

NextAsync ==
    \/ TaskStart
    \/ TaskFinish
    \/ TaskResume
    \/ ClockStep

SpecAsync == InitAsync /\ [][NextAsync]_vars

\* The steps of the tasks alone, at one clock reading.
NextAsyncTasks ==
    \/ TaskStart
    \/ TaskFinish
    \/ TaskResume

\* The event loop runs every callback that is ready and serves every timer
\* that is due: a task that can start does start, a sleep that was begun
\* ends, a waiter that was handed a permit resumes.
SpecAsyncFair ==
    /\ InitAsync
    /\ [][NextAsyncTasks]_vars
    /\ WF_vars(TaskStart)
    /\ WF_vars(TaskFinish)
    /\ WF_vars(TaskResume)

\* ------------------------------------------------- the registry's calls

\* No DataProcessor is in use.
NoProcessor ==
    /\ cache = <<>>
    /\ stats = NewStats
    /\ max_cache_size = 0
    /\ validator = NoValidator
    /\ processing_count = 0
    /\ now = 0
    /\ last = Call("init", NoData, <<>>, 0, <<>>, 0, NoRaise, FALSE)

InitUsers == NoProcessor /\ NoAsync /\ NewUserService /\ request_count = 0

AddUserOp ==
    /\ \E user \in SomeUsers :
        \E r \in {AddUser(users, listeners, max_users, user)} :
            /\ users' = r.users
            /\ ulast' = UCall("add_user", <<user>>, user.id, NoRequest, r,
                              NoResponse)
    /\ UNCHANGED <<listeners, max_users, request_count>>
    /\ UNCHANGED <<cacheVars, now>>
    /\ UNCHANGED asyncVars

FindUserOp ==
    /\ \E id \in Ids :
        ulast' = UCall("find_user", None, id, NoRequest, FindUser(users, id),
                       NoResponse)
    /\ UNCHANGED <<users, listeners, max_users, request_count>>
    /\ UNCHANGED <<cacheVars, now>>
    /\ UNCHANGED asyncVars

RemoveUserOp ==
    /\ \E id \in Ids :
        \E r \in {RemoveUser(users, listeners, id)} :
            /\ users' = r.users
            /\ ulast' = UCall("remove_user", None, id, NoRequest, r, NoResponse)
    /\ UNCHANGED <<listeners, max_users, request_count>>
    /\ UNCHANGED <<cacheVars, now>>
    /\ UNCHANGED asyncVars

\* add_listener(listener): appends, also a listener already registered.
AddListenerOp ==
    /\ Len(listeners) < MaxListeners
    /\ \E l \in Listeners : listeners' = Append(listeners, l)
    /\ ulast' = UCall("add_listener", None, NoId, NoRequest,
                      Outcome(users, FALSE, None, NoRaise, Silent), NoResponse)
    /\ UNCHANGED <<users, max_users, request_count>>
    /\ UNCHANGED <<cacheVars, now>>
    /\ UNCHANGED asyncVars

NextUsers ==
    \/ AddUserOp
    \/ FindUserOp
    \/ RemoveUserOp
    \/ AddListenerOp

SpecUsers == InitUsers /\ [][NextUsers]_vars

\* ------------------------------------------------------------- user records

\* The character classes of the pattern of User._validate_email,
\* ^[a-zA-Z0-9._%+-]+@[a-zA-Z0-9.-]+\.[a-zA-Z]{2,}$, on the characters in use.
IsLetter(c) == c \in {"a", "b", "c", "o"}

IsLocalChar(c) == IsLetter(c) \/ c \in {".", "_", "%", "+", "-"}

IsDomainChar(c) == IsLetter(c) \/ c \in {".", "-"}

\* re.match(pattern, email): a local part, "@", a domain, ".", two or more
\* letters, up to the end of the text or up to a newline that ends it.
ValidateEmail(e) ==
    \E at \in 2..Len(e), dot \in 3..Len(e), end \in {Len(e) - 1, Len(e)} :
        /\ end = Len(e) \/ e[Len(e)] = "\n"
        /\ e[at] = "@"
        /\ \A k \in 1..(at - 1) : IsLocalChar(e[k])
        /\ dot > at + 1
        /\ \A k \in (at + 1)..(dot - 1) : IsDomainChar(e[k])
        /\ e[dot] = "."
        /\ end >= dot + 2
        /\ \A k \in (dot + 1)..end : IsLetter(e[k])

NameEmpty == "ValueError: Name cannot be empty"

InvalidEmail == "ValueError: Invalid email format"

NegativeAge == "ValueError: Age cannot be negative"

\* User.set_name(name) at clock reading t: the record after it, what it raised
SetName(u, name, t) ==
    IF name = "" THEN [user |-> u, exc |-> NameEmpty]
    ELSE [user |-> [u EXCEPT !.name = name, !.updated_at = <<t>>], exc |-> NoRaise]

\* User.set_email(email)
SetEmail(u, email, t) ==
    IF ~ValidateEmail(email) THEN [user |-> u, exc |-> InvalidEmail]
    ELSE [user |-> [u EXCEPT !.email = email, !.updated_at = <<t>>], exc |-> NoRaise]

\* User.set_age(age) for an int age: stores it, leaves updated_at alone
SetAge(u, age) ==
    IF age < 0 THEN [user |-> u, exc |-> NegativeAge]
    ELSE [user |-> [u EXCEPT !.age = <<age>>], exc |-> NoRaise]

\* User.to_dict
ToDict(u) ==
    [id |-> u.id, name |-> u.name, email |-> u.email, role |-> u.role,
     age |-> u.age]

\* Emails given to setters and in requests: one that fails the pattern, a second that passes.
BadEmail == <<"a", "@", "b">>

OtherEmail == <<"b", "@", "a", ".", "c", "o">>

\* User.set_id(id): stores any id, checks nothing and leaves updated_at
\* alone (_internal_id, derived from id, is not carried in the record).
SetId(u, id) == [user |-> [u EXCEPT !.id = id], exc |-> NoRaise]

\* The keys of the registry whose records the setters are called on.
RecordKeys == <<"u1", "u2">>

\* The registry after add_user of one record per key, for the first n keys.
Registered(n) ==
    [i \in 1..n |-> NewUser(RecordKeys[i], "A", GoodEmail, "user", 0)]

\* A registry of one or two records, to whose records the caller holds
\* references (find_user returns the stored object itself).
InitRecord ==
    /\ NoProcessor
    /\ NoAsync
    /\ users \in {Registered(n) : n \in 1..Len(RecordKeys)}
    /\ listeners = <<>>
    /\ max_users = Len(RecordKeys)
    /\ request_count = 0
    /\ ulast = UCall("init", None, NoId, NoRequest,
                     Outcome(<<>>, FALSE, None, NoRaise, Silent), NoResponse)

\* A setter called with arg on the record stored under the i-th key, with
\* outcome r: the stored object is mutated in place; the mapping, and so the
\* key the record is stored under, is not touched.
SetterCall(op, i, arg, r) ==
    /\ users' = [users EXCEPT ![i] = r.user]
    /\ ulast' = UCall(op, <<users[i]>>, RecordKeys[i], <<arg>>,
                      Outcome(<<>>, FALSE, None, r.exc, Silent), NoResponse)
    /\ UNCHANGED <<listeners, max_users, request_count>>
    /\ UNCHANGED <<cacheVars, now>>
    /\ UNCHANGED asyncVars

SetIdOp ==
    \E i \in 1..Len(users), id \in {"", "u3"} :
        SetterCall("set_id", i, id, SetId(users[i], id))

SetNameOp ==
    \E i \in 1..Len(users), name \in {"", "B"} :
        SetterCall("set_name", i, name, SetName(users[i], name, now))

SetEmailOp ==
    \E i \in 1..Len(users), email \in {BadEmail, OtherEmail} :
        SetterCall("set_email", i, email, SetEmail(users[i], email, now))

SetAgeOp ==
    \E i \in 1..Len(users), age \in {-1, 0} :
        SetterCall("set_age", i, age, SetAge(users[i], age))

NextRecord ==
    \/ SetIdOp
    \/ SetNameOp
    \/ SetEmailOp
    \/ SetAgeOp
    \/ ClockStep

SpecRecord == InitRecord /\ [][NextRecord]_vars

\* ------------------------------------------------------------------ facade

\* A request dict: each key is absent (None) or carries a value.
Request(name, email, role, age) ==
    [name |-> name, email |-> email, role |-> role, age |-> age]

\* The requests given to create_user: without name and email, without
\* email, with an empty name, with an empty email, with both, and with both
\* where the email fails the pattern and the role is not of the enumeration.
CreateRequests ==
    {Request(None, None, None, None),
     Request(<<"A">>, None, None, None),
     Request(<<"">>, <<GoodEmail>>, None, None),
     Request(<<"A">>, <<<<>>>>, None, None),
     Request(<<"A">>, <<GoodEmail>>, None, None),
     Request(<<"A">>, <<BadEmail>>, <<"root">>, None)}

\* The requests given to update_user: no key; each key alone, with a value
\* its setter takes and one it rejects; and several keys, where the first,
\* a middle or the last setter rejects, or none does.
UpdateRequests ==
    {Request(None, None, None, None),
     Request(<<"">>, None, None, None),
     Request(<<"B">>, None, None, None),
     Request(None, <<BadEmail>>, None, None),
     Request(None, <<OtherEmail>>, None, None),
     Request(None, None, <<"root">>, None),
     Request(None, None, None, <<-1>>),
     Request(None, None, None, <<0>>),
     Request(<<"">>, <<OtherEmail>>, None, None),
     Request(<<"B">>, <<BadEmail>>, <<"root">>, None),
     Request(None, <<OtherEmail>>, <<"root">>, <<-1>>),
     Request(<<"B">>, <<OtherEmail>>, <<"root">>, <<0>>)}

\* The identifiers _generate_user_id draws (two draws may coincide).
FacadeIds == {"u1", "u2"}

\* not request.get(key)
Falsy(field, empty) == field = None \/ field[1] = empty

\* The message of an envelope: a fixed text, or a text with the count or the
\* exception message formatted into it.
Message(text, count, detail) == [text |-> text, count |-> count, detail |-> detail]

\* str(e) of the exceptions raised
ExcMessage(exc) ==
    CASE exc = MaximumUsers -> "Maximum users reached"
      [] exc = NameEmpty -> "Name cannot be empty"
      [] exc = InvalidEmail -> "Invalid email format"
      [] exc = NegativeAge -> "Age cannot be negative"
      [] OTHER -> exc

STATUS_SUCCESS == "success"

STATUS_ERROR == "error"

\* ApiResponse(status, message, data) built at clock reading t
ApiResponse(status, message, data, t) ==
    [status |-> status, message |-> message, data |-> data, timestamp |-> t]

\* The outcome of a facade call: the registry's mapping after it, the
\* envelope returned (none when an exception escaped), the exception that
\* escaped, and what the registry call inside it did.
Returned(out, resp) == [out EXCEPT !.exc = NoRaise] @@ [resp |-> <<resp>>]

Escaped(out, exc) == [out EXCEPT !.exc = exc] @@ [resp |-> None]

CreateUserDelegatesFirst(us, ls, maxu, req, id, t) ==
    LET user == NewUser(id, IF req.name = None THEN "" ELSE req.name[1],
                        IF req.email = None THEN <<>> ELSE req.email[1],
                        IF req.role = None THEN "user" ELSE req.role[1], t)
        added == AddUser(us, ls, maxu, user)
    IN  IF Falsy(req.name, "") \/ Falsy(req.email, <<>>) \/ added.exc # NoRaise
        THEN Returned(added,
                      ApiResponse(STATUS_ERROR,
                                  Message("Name and email are required", 0, ""),
                                  None, t))
        ELSE Returned(added,
                      ApiResponse(IF added.ok THEN STATUS_SUCCESS ELSE STATUS_ERROR,
                                  Message("User created", 0, ""),
                                  <<ToDict(user)>>, t))

\* create_user(request): id is the identifier _generate_user_id draws.
CreateUser(us, ls, maxu, req, id, t) ==
    IF Falsy(req.name, "") \/ Falsy(req.email, <<>>)
    THEN Returned(Outcome(us, FALSE, None, NoRaise, Silent),
                  ApiResponse(STATUS_ERROR,
                              Message("Name and email are required", 0, ""),
                              None, t))
    ELSE LET user == NewUser(id, req.name[1], req.email[1],
                             IF req.role = None THEN "user" ELSE req.role[1], t)
             added == AddUser(us, ls, maxu, user)
         IN  IF added.exc # NoRaise
             THEN Returned(added,
                           ApiResponse(STATUS_ERROR,
                                       Message("Internal error: {}", 0,
                                               ExcMessage(added.exc)),
                                       None, t))
             ELSE IF added.ok
             THEN Returned(added,
                           ApiResponse(STATUS_SUCCESS, Message("User created", 0, ""),
                                       <<ToDict(user)>>, t))
             ELSE Returned(added,
                           ApiResponse(STATUS_ERROR,
                                       Message("User already exists", 0, ""),
                                       None, t))

\* get_user(user_id)
GetUser(us, id, t) ==
    LET r == FindUser(us, id)
    IN  IF r.found # None
        THEN Returned(r, ApiResponse(STATUS_SUCCESS, Message("User found", 0, ""),
                                     <<ToDict(r.found[1])>>, t))
        ELSE Returned(r, ApiResponse(STATUS_ERROR, Message("User not found", 0, ""),
                                     None, t))

\* The setters update_user applies, in its order: each runs when its key is
\* in the request and no earlier one raised.
ApplyName(st, req, t) ==
    IF st.exc # NoRaise \/ req.name = None THEN st
    ELSE SetName(st.user, req.name[1], t)

ApplyEmail(st, req, t) ==
    IF st.exc # NoRaise \/ req.email = None THEN st
    ELSE SetEmail(st.user, req.email[1], t)

ApplyRoleOrDefault(st, req) ==
    IF st.exc # NoRaise THEN st
    ELSE [st EXCEPT !.user.role = IF req.role = None THEN "user" ELSE req.role[1]]

ApplyRole(st, req) ==
    IF st.exc # NoRaise \/ req.role = None THEN st
    ELSE [st EXCEPT !.user.role = req.role[1]]

ApplyAge(st, req) ==
    IF st.exc # NoRaise \/ req.age = None THEN st
    ELSE SetAge(st.user, req.age[1])

\* The mapping with the record under id replaced by u: the record is
\* mutated in place.
WithUser(us, id, u) == [i \in 1..Len(us) |-> IF us[i].id = id THEN u ELSE us[i]]

UpdateUserAtomic(us, id, req, t) ==
    LET r == FindUser(us, id)
    IN  IF r.found = None
        THEN Returned(r, ApiResponse(STATUS_ERROR, Message("User not found", 0, ""),
                                     None, t))
        ELSE LET st == ApplyAge(ApplyRole(ApplyEmail(ApplyName(
                            [user |-> r.found[1], exc |-> NoRaise], req, t),
                            req, t), req), req)
                 after == [r EXCEPT !.users = WithUser(us, id, st.user)]
             IN  IF st.exc # NoRaise THEN Escaped(r, st.exc)
                 ELSE Returned(after,
                               ApiResponse(STATUS_SUCCESS,
                                           Message("User updated", 0, ""),
                                           <<ToDict(st.user)>>, t))

\* update_user(user_id, request): what a setter raises is not caught.
UpdateUser(us, id, req, t) ==
    LET r == FindUser(us, id)
    IN  IF r.found = None
        THEN Returned(r, ApiResponse(STATUS_ERROR, Message("User not found", 0, ""),
                                     None, t))
        ELSE LET st == ApplyAge(ApplyRole(ApplyEmail(ApplyName(
                            [user |-> r.found[1], exc |-> NoRaise], req, t),
                            req, t), req), req)
                 after == [r EXCEPT !.users = WithUser(us, id, st.user)]
             IN  IF st.exc # NoRaise THEN Escaped(after, st.exc)
                 ELSE Returned(after,
                               ApiResponse(STATUS_SUCCESS,
                                           Message("User updated", 0, ""),
                                           <<ToDict(st.user)>>, t))

\* delete_user(user_id)
DeleteUser(us, ls, id, t) ==
    LET r == RemoveUser(us, ls, id)
    IN  IF r.exc # NoRaise THEN Escaped(r, r.exc)
        ELSE IF r.ok
        THEN Returned(r, ApiResponse(STATUS_SUCCESS, Message("User deleted", 0, ""),
                                     None, t))
        ELSE Returned(r, ApiResponse(STATUS_ERROR, Message("User not found", 0, ""),
                                     None, t))

\* list[i:j] for any ints i, j: a negative index counts from the end, and
\* both are clipped to the list.
PyIndex(n, len) ==
    IF n < 0 THEN (IF n + len < 0 THEN 0 ELSE n + len)
    ELSE IF n > len THEN len ELSE n

PySliceAny(list, i, j) == SubSeq(list, PyIndex(i, Len(list)) + 1, PyIndex(j, Len(list)))

ListUsersSlicesToLimit(us, role, limit, offset, t) ==
    LET all == IF role = None \/ role[1] = "" THEN us
               ELSE SelectSeq(us, LAMBDA u : u.role = role[1])
        paginated == PySliceAny(all, offset, limit)
    IN  Returned(Outcome(us, FALSE, None, NoRaise, Silent),
                 ApiResponse(STATUS_SUCCESS,
                             Message("Found {} users", Len(paginated), ""),
                             <<[users |-> [k \in 1..Len(paginated) |->
                                              ToDict(paginated[k])],
                                total |-> Len(all), limit |-> limit,
                                offset |-> offset]>>,
                             t))

\* list_users(role, limit, offset); role None means no filter.
ListUsers(us, role, limit, offset, t) ==
    LET all == IF role = None \/ role[1] = "" THEN us
               ELSE SelectSeq(us, LAMBDA u : u.role = role[1])
        paginated == PySliceAny(all, offset, offset + limit)
    IN  Returned(Outcome(us, FALSE, None, NoRaise, Silent),
                 ApiResponse(STATUS_SUCCESS,
                             Message("Found {} users", Len(paginated), ""),
                             <<[users |-> [k \in 1..Len(paginated) |->
                                              ToDict(paginated[k])],
                                total |-> Len(all), limit |-> limit,
                                offset |-> offset]>>,
                             t))

\* ApiController(UserService(max_users)) over a registry whose listeners,
\* none or a raising one and a returning one, were registered before.
InitFacade ==
    /\ NoProcessor
    /\ NoAsync
    /\ users = <<>>
    /\ listeners \in {<<>>, <<"raiser", "ok">>}
    /\ max_users \in 0..MaxUsers
    /\ request_count = 0
    /\ ulast = UCall("init", None, NoId, NoRequest,
                     Outcome(<<>>, FALSE, None, NoRaise, Silent), NoResponse)

\* A call through the log_request wrapper: the counter grows, then the
\* method runs with outcome r.
Logged(op, id, req, r) ==
    /\ request_count' = request_count + 1
    /\ users' = r.users
    /\ ulast' = UCall(op, None, id, req, r, r.resp)
    /\ UNCHANGED <<listeners, max_users>>
    /\ UNCHANGED <<cacheVars, now>>
    /\ UNCHANGED asyncVars

CreateUserOp ==
    /\ request_count < MaxRequests
    /\ \E req \in CreateRequests, id \in FacadeIds :
        \E r \in {CreateUser(users, listeners, max_users, req, id, now)} :
            Logged("create_user", id, <<req>>, r)

GetUserOp ==
    /\ request_count < MaxRequests
    /\ \E id \in FacadeIds :
        \E r \in {GetUser(users, id, now)} : Logged("get_user", id, NoRequest, r)

UpdateUserOp ==
    /\ request_count < MaxRequests
    /\ \E req \in UpdateRequests, id \in FacadeIds :
        \E r \in {UpdateUser(users, id, req, now)} :
            Logged("update_user", id, <<req>>, r)

DeleteUserOp ==
    /\ request_count < MaxRequests
    /\ \E id \in FacadeIds :
        \E r \in {DeleteUser(users, listeners, id, now)} :
            Logged("delete_user", id, NoRequest, r)

\* parse_pagination_params, after the two ints are parsed: the limit is
\* brought into 1..1000 and the offset to 0 or more. list_users does not
\* call it.
ParsePaginationParams(limit, offset) ==
    [limit |-> IF limit < 1 THEN 1 ELSE IF limit > 1000 THEN 1000 ELSE limit,
     offset |-> IF offset < 0 THEN 0 ELSE offset]

\* list_users called with arguments of the given sets; it is not wrapped by
\* log_request: the counter stays.
ListUsersCall(roles, limits, offsets) ==
    /\ \E role \in roles, limit \in limits, offset \in offsets :
        \E r \in {ListUsers(users, role, limit, offset, now)} :
            ulast' = UCall("list_users", None, NoId,
                           <<[role |-> role, limit |-> limit, offset |-> offset]>>,
                           r, r.resp)
    /\ UNCHANGED <<users, listeners, max_users, request_count>>
    /\ UNCHANGED <<cacheVars, now>>
    /\ UNCHANGED asyncVars

ListUsersOp == ListUsersCall({None, <<"root">>}, {-1, 1, MaxUsers}, (-1)..1)

\* The facade's calls, explored at one clock reading.
NextFacade ==
    \/ CreateUserOp
    \/ GetUserOp
    \/ UpdateUserOp
    \/ DeleteUserOp
    \/ ListUsersOp

SpecFacade == InitFacade /\ [][NextFacade]_vars

\* The registry after add_user of n records with the given roles, under
\* identifiers "k1", "k2", ... in that order.
Listed(n, roles) ==
    [i \in 1..n |-> NewUser("k" \o DigitChar(i), "A", GoodEmail, roles[i], 0)]

\* ApiController(UserService()) over a registry of up to MaxListed users,
\* each of role user or root.
InitList ==
    /\ NoProcessor
    /\ NoAsync
    /\ \E n \in 0..MaxListed :
        users \in {Listed(n, roles) : roles \in [1..n -> {"user", "root"}]}
    /\ listeners = <<>>
    /\ max_users = MaxListed
    /\ request_count = 0
    /\ ulast = UCall("init", None, NoId, NoRequest,
                     Outcome(<<>>, FALSE, None, NoRaise, Silent), NoResponse)

\* list_users with no role, a role some users have, or the empty text; a
\* limit and an offset below, within and beyond the registry's size.
ListUsersOpL ==
    ListUsersCall({None, <<"root">>, <<"">>}, {-1, 0, 1, 2, MaxListed + 1},
                  {-1, 0, 1, 2, MaxListed})

SpecList == InitList /\ [][ListUsersOpL]_vars

\* ----------------------------------------------------------------- claims

\* The set of entries of a cache.
Entries(c) == {c[i] : i \in 1..Len(c)}

\* This step is a call of process: calls leave the clock alone, and last'
\* says which call it was.
ProcessCallStep ==
    /\ now' = now
    /\ last'.op = "process"
    /\ processing_count' = processing_count + 1

\* The call of this step misses: its key is not in the cache before it.
Misses == ~InCache(cache, GetCacheKey(last'.data))

\* The validator rejects the input of this step's call.
Rejects == validator.present /\ ~Validate(validator, last'.data)

\* C1: with cache_size >= 1, the number of live cache entries never exceeds
\* cache_size, whatever process, remove_expired and clear_cache calls were
\* made.
C1_CacheBounded == max_cache_size >= 1 => Len(cache) <= max_cache_size

\* A cache of the largest size is full right after a process call, and an
\* eviction has happened.
C1_Witness ==
    /\ max_cache_size = MaxCacheSize
    /\ Len(cache) = max_cache_size
    /\ last.op = "process"
    /\ stats.evictions >= 1

\* C2: a process call that misses and reaches the insert (the validator does
\* not reject its input) on a cache holding cache_size >= 1 entries evicts
\* exactly one entry, one of least creation timestamp among the live entries;
\* every other entry stays, the new entry is added, and the eviction counter
\* grows by exactly 1. Below capacity nothing is evicted and the eviction
\* counter is unchanged.
C2_EvictsOldest ==
    [][(ProcessCallStep /\ Misses /\ ~Rejects /\ max_cache_size >= 1) =>
          IF Len(cache) >= max_cache_size
          THEN /\ \E i \in 1..Len(cache) :
                    /\ \A j \in 1..Len(cache) :
                           cache[i].timestamp <= cache[j].timestamp
                    /\ Entries(cache) \ Entries(cache') = {cache[i]}
               /\ Entries(cache') \ Entries(cache) = {last'.ret[1]}
               /\ Len(cache') = Len(cache)
               /\ stats'.evictions = stats.evictions + 1
          ELSE /\ Entries(cache) \subseteq Entries(cache')
               /\ Entries(cache') \ Entries(cache) = {last'.ret[1]}
               /\ Len(cache') = Len(cache) + 1
               /\ stats'.evictions = stats.evictions]_vars

\* The fourth call, a miss on a full cache of two, has evicted one entry and
\* appended its own; one of the earlier calls was a hit.
C2_Witness ==
    /\ max_cache_size = 2
    /\ Len(cache) = 2
    /\ last.op = "process"
    /\ last.exc = NoRaise
    /\ last.ret = <<cache[2]>>
    /\ stats.evictions = 1
    /\ stats.hits = 1
    /\ stats.misses = 3

\* C3: with cache_size >= 1, a process call that the validator did not
\* reject, followed (no other call in between) by a process call on the same
\* input: the second call is a hit. The hit counter grows by 1, the miss
\* counter does not, and the second call returns the entry the first
\* returned, with the same result payload.
C3_SecondCallHits ==
    [][(/\ max_cache_size >= 1
        /\ last.op = "process"
        /\ last.exc # InvalidData
        /\ ProcessCallStep
        /\ last'.data = last.data) =>
          /\ stats'.hits = stats.hits + 1
          /\ stats'.misses = stats.misses
          /\ last'.exc = NoRaise
          /\ Len(last.ret) = 1
          /\ last'.ret = last.ret
          /\ last'.ret[1].processed_data = last.ret[1].processed_data]_vars

\* Two calls were made, both process on the same input: a miss, then a hit.
C3_Witness ==
    /\ last.op = "process"
    /\ processing_count = 2
    /\ stats.hits = 1
    /\ stats.misses = 1
    /\ last.ret = <<cache[1]>>
    /\ cache[1].original_data = last.data

\* C4: a process call whose key is in the cache changes the hit counter (+1)
\* and leaves the cached entries, their order, every field and timestamp of
\* every entry, the miss counter, the eviction counter and the stored size
\* as they were; the validator is not consulted, and the cached entry is
\* returned whatever its age.
C4_HitFrame ==
    [][(ProcessCallStep /\ ~Misses) =>
          /\ cache' = cache
          /\ stats' = [stats EXCEPT !.hits = @ + 1]
          /\ max_cache_size' = max_cache_size
          /\ validator' = validator
          /\ ~last'.consulted
          /\ last'.exc = NoRaise
          /\ last'.ret = <<Lookup(cache, GetCacheKey(last'.data))>>]_vars

\* A hit served for an input the validator would reject, on an entry whose
\* age exceeds a TTL of 0.
C4_Witness ==
    /\ last.op = "process"
    /\ last.exc = NoRaise
    /\ stats.hits >= 1
    /\ validator.present
    /\ ~Validate(validator, last.data)
    /\ Len(last.ret) = 1
    /\ IsExpired(last.ret[1], 0, now)

\* C5: a process call that misses and whose input the validator rejects
\* raises ValueError (invalid data), returns nothing and inserts nothing: the
\* cached entries and the eviction counter are as before the call.
C5_RejectedMiss ==
    [][(ProcessCallStep /\ Misses /\ Rejects) =>
          /\ last'.exc = InvalidData
          /\ last'.ret = <<>>
          /\ last'.consulted
          /\ cache' = cache
          /\ stats'.evictions = stats.evictions]_vars

\* A rejected miss on a full cache: nothing was evicted.
C5_Witness ==
    /\ last.op = "process"
    /\ last.exc = InvalidData
    /\ max_cache_size >= 1
    /\ Len(cache) = max_cache_size
    /\ stats.evictions = 0

\* C6: remove_expired(ttl) removes exactly the entries whose age is strictly
\* greater than ttl and keeps every other entry (in order), increases the
\* eviction counter by the number of entries removed, and returns that number.
C6_RemoveExpired ==
    [][(now' = now /\ last'.op = "remove_expired") =>
          /\ cache' = SelectSeq(cache, LAMBDA e : ~(now - e.timestamp > last'.arg))
          /\ stats'.evictions = stats.evictions + (Len(cache) - Len(cache'))
          /\ last'.count = Len(cache) - Len(cache')
          /\ last'.count =
                 Cardinality({i \in 1..Len(cache) : now - cache[i].timestamp > last'.arg})
          /\ stats'.hits = stats.hits
          /\ stats'.misses = stats.misses]_vars

\* remove_expired removed an entry and kept one whose age equals ttl.
C6_Witness ==
    /\ last.op = "remove_expired"
    /\ last.count >= 1
    /\ \E i \in 1..Len(cache) : now - cache[i].timestamp = last.arg

\* C7: the hit, miss and eviction counters never decrease, whatever process,
\* process_batch, remove_expired and clear_cache calls are made.
C7_CountersMonotone ==
    [][/\ stats'.hits >= stats.hits
       /\ stats'.misses >= stats.misses
       /\ stats'.evictions >= stats.evictions]_vars

\* clear_cache has run with all three counters above zero.
C7_Witness ==
    /\ last.op = "clear_cache"
    /\ stats.hits >= 1
    /\ stats.misses >= 1
    /\ stats.evictions >= 1

\* C8: in every reachable state the size stored in the cache statistics
\* equals the number of live cache entries.
C8_StoredSizeIsLive == stats.size = Len(cache)

\* Calling process on each item, one call after another in list order, from
\* the fields st; a call that raises ends the sequence.
RECURSIVE OneAfterAnother(_, _, _, _, _)
OneAfterAnother(st, items, maxsize, v, t) ==
    IF items = <<>> \/ st.exc # NoRaise THEN st
    ELSE OneAfterAnother(
             Collect(st.ret, Process(st.cache, st.stats, st.count, maxsize, v,
                                     items[1], t)),
             SubSeq(items, 2, Len(items)), maxsize, v, t)

\* C9: for every list and every batch_size >= 1, process_batch leaves the
\* cache, the counters and the processing count as calling process on each
\* item one after another in list order does, raises where that raises, and
\* otherwise returns the same results: one per input, in input order. The
\* outcome does not depend on batch_size.
C9_BatchIsSequential ==
    [][(now' = now /\ last'.op = "process_batch" /\ last'.arg >= 1) =>
          \E ref \in {OneAfterAnother(
                          [cache |-> cache, stats |-> stats,
                           count |-> processing_count, ret |-> <<>>,
                           exc |-> NoRaise],
                          last'.items, max_cache_size, validator, now)} :
              /\ cache' = ref.cache
              /\ stats' = ref.stats
              /\ processing_count' = ref.count
              /\ last'.exc = ref.exc
              /\ ref.exc = NoRaise =>
                    /\ last'.ret = ref.ret
                    /\ Len(last'.ret) = Len(last'.items)
                    /\ \A i \in 1..Len(last'.items) :
                           last'.ret[i].id = GetCacheKey(last'.items[i])]_vars

\* A list of MaxBatchLen items was processed in more than one chunk, with an
\* eviction on the way, and one result per item came back.
C9_Witness ==
    /\ last.op = "process_batch"
    /\ Len(last.items) = MaxBatchLen
    /\ last.arg >= 1
    /\ last.arg < Len(last.items)
    /\ last.exc = NoRaise
    /\ Len(last.ret) = MaxBatchLen
    /\ stats.evictions >= 1

\* C10: during process_batch_async the tasks holding a permit of the
\* semaphore, and so the tasks inside process_async, never number more than
\* concurrency.
C10_ConcurrencyCap ==
    /\ Cardinality(Holders) <= concurrency
    /\ Cardinality(InFlight) <= concurrency
    /\ sem >= 0

\* Two tasks are inside process_async with concurrency 2 while another waits
\* for a permit.
C10_Witness ==
    /\ concurrency = 2
    /\ Cardinality(InFlight) = 2
    /\ waiters # <<>>

\* The keys of a cache are pairwise distinct.
NoKeyTwice(c) == \A i, j \in 1..Len(c) : c[i].id = c[j].id => i = j

\* The tasks of process_batch_async that have finished.
Done == {i \in 1..Len(task) : task[i].pc = "done"}

\* This step touches the processor or finishes a task.
TaskEffect ==
    \/ <<cache, stats, processing_count>>' # <<cache, stats, processing_count>>
    \/ \E j \in 1..Len(task) :
           \/ task'[j].pc = "done" /\ task[j].pc # "done"
           \/ task'[j].ret # task[j].ret
           \/ task'[j].exc # task[j].exc

\* What the tasks finished so far have left: no key is cached twice, the
\* cache is within cache_size >= 1, each finished task made one process call,
\* and its result is the entry under the key of its input, with the payload
\* computed from that input (nothing when its call raised).
TasksSerialSoFar ==
    /\ NoKeyTwice(cache)
    /\ max_cache_size >= 1 => Len(cache) <= max_cache_size
    /\ stats.hits + stats.misses = Cardinality(Done)
    /\ processing_count = Cardinality(Done)
    /\ \A i \in Done :
          IF task[i].exc = NoRaise
          THEN /\ Len(task[i].ret) = 1
               /\ task[i].ret[1].id = GetCacheKey(data_list[i])
               /\ task[i].ret[1].processed_data = DoProcessing(data_list[i])
          ELSE task[i].ret = <<>>

\* C11: every interleaving of the tasks of process_batch_async is a run of
\* process on the inputs one at a time in the order the tasks finish: a step
\* that touches the cache, the counters or a result is one whole process call
\* for the input of one task that had not finished, made at the clock reading
\* of that step, and it finishes that task and no other; an input whose key
\* is cached is not inserted again; no key is cached twice and with
\* cache_size >= 1 the cache never exceeds it; each input is processed
\* exactly once; the result at position i is the entry under the key of
\* data_list[i], carrying the payload computed from data_list[i].
C11_TasksRunOneAtATime ==
    /\ []TasksSerialSoFar
    /\ [][TaskEffect =>
               \E i \in 1..Len(task) :
                   /\ task[i].pc = "sleeping"
                   /\ task'[i].pc = "done"
                   /\ \A j \in 1..Len(task) \ {i} :
                          /\ task'[j].ret = task[j].ret
                          /\ task'[j].exc = task[j].exc
                          /\ task'[j].pc = "done" <=> task[j].pc = "done"
                   /\ InCache(cache, GetCacheKey(data_list[i])) => cache' = cache
                   /\ \E r \in {Process(cache, stats, processing_count,
                                        max_cache_size, validator, data_list[i],
                                        now)} :
                          /\ cache' = r.cache
                          /\ stats' = r.stats
                          /\ processing_count' = r.count
                          /\ task'[i].ret = r.ret
                          /\ task'[i].exc = r.exc]_vars

\* Three tasks under concurrency 2 have all finished, the third after waiting
\* for a permit: one of them hit the entry another had inserted, and one
\* insert evicted an entry.
C11_Witness ==
    /\ Len(task) = 3
    /\ concurrency = 2
    /\ Done = 1..3
    /\ stats.hits >= 1
    /\ stats.evictions >= 1
    /\ \A i \in 1..3 : task[i].exc = NoRaise

\* This step is a call of the registry or facade operation op.
UserCallStep(op) == now' = now /\ ulast'.op = op

\* C12: after any sequence of add_user and remove_user calls on a registry of
\* capacity max_users (a count, so max_users >= 0), the number of stored
\* users never exceeds max_users.
C12_UsersBounded == max_users >= 0 => Len(users) <= max_users

\* A registry of the largest capacity is full, and the add of one more user
\* has just been refused.
C12_Witness ==
    /\ max_users = MaxUsers
    /\ Len(users) = MaxUsers
    /\ ulast.op = "add_user"
    /\ ulast.exc = MaximumUsers

\* The records stored under identifier id (none or one).
Stored(us, id) == {us[i] : i \in {k \in 1..Len(us) : us[k].id = id}}

\* No listener was called and no listener error was logged by the call.
NoListenerCalled == ulast'.delivered = <<>> /\ ulast'.logged = <<>>

C14_AddAtCapacity ==
    [][(UserCallStep("add_user") /\ ~HasUser(users, ulast'.id)
           /\ Len(users) = max_users) =>
          /\ ulast'.exc = MaximumUsers
          /\ users' = users
          /\ Len(users') = max_users
          /\ listeners' = listeners
          /\ NoListenerCalled]_vars

\* A registry of capacity MaxUsers >= 1 with a listener is full and has just
\* raised on a new identifier.
C14_Witness ==
    /\ ulast.op = "add_user"
    /\ ulast.exc = MaximumUsers
    /\ max_users = MaxUsers
    /\ Len(users) = max_users
    /\ ~HasUser(users, ulast.id)
    /\ listeners # <<>>

\* C15: add_user with a new identifier on a registry below capacity appends
\* the user, returns True, and within the call every registered listener
\* receives exactly one event, USER_ADDED carrying that user (a listener
\* registered twice receives one per registration).
C15_AddNotifies ==
    [][(UserCallStep("add_user") /\ ~HasUser(users, ulast'.id)
           /\ Len(users) < max_users) =>
          /\ users' = Append(users, ulast'.user[1])
          /\ ulast'.ok = TRUE
          /\ ulast'.exc = NoRaise
          /\ Len(ulast'.delivered) = Len(listeners)
          /\ \A i \in 1..Len(listeners) :
                ulast'.delivered[i] =
                    [listener |-> listeners[i], pos |-> i, event |-> USER_ADDED,
                     user |-> ulast'.user[1]]]_vars

\* A second user was added to a registry with MaxListeners listeners, and as
\* many events were delivered.
C15_Witness ==
    /\ ulast.op = "add_user"
    /\ ulast.ok = TRUE
    /\ Len(users) = 2
    /\ Len(listeners) = MaxListeners
    /\ Len(ulast.delivered) = MaxListeners
    /\ users[2] = ulast.user[1]

\* C16: remove_user on an identifier that is not in the registry returns
\* False, raises nothing, leaves the registry as it was and delivers no event.
C16_RemoveAbsent ==
    [][(UserCallStep("remove_user") /\ ~HasUser(users, ulast'.id)) =>
          /\ ulast'.ok = FALSE
          /\ ulast'.exc = NoRaise
          /\ users' = users
          /\ listeners' = listeners
          /\ NoListenerCalled]_vars

\* A registry holding a user and a listener has just answered False to the
\* removal of an identifier it does not hold.
C16_Witness ==
    /\ ulast.op = "remove_user"
    /\ ulast.ok = FALSE
    /\ users # <<>>
    /\ listeners # <<>>
    /\ ~HasUser(users, ulast.id)

\* C17: remove_user on an identifier in the registry deletes exactly that
\* entry (the other entries stay, in order), delivers to every listener one
\* USER_REMOVED event carrying the removed record, and returns True; find_user
\* on the identifier then returns the absent result.
C17_RemovePresent ==
    [][(UserCallStep("remove_user") /\ HasUser(users, ulast'.id)) =>
          \E k \in 1..Len(users) :
              /\ users[k].id = ulast'.id
              /\ users' = SubSeq(users, 1, k - 1) \o SubSeq(users, k + 1, Len(users))
              /\ ulast'.ok = TRUE
              /\ ulast'.exc = NoRaise
              /\ Len(ulast'.delivered) = Len(listeners)
              /\ \A i \in 1..Len(listeners) :
                    ulast'.delivered[i] =
                        [listener |-> listeners[i], pos |-> i,
                         event |-> USER_REMOVED, user |-> users[k]]
              /\ FindUser(users', ulast'.id).found = None
              /\ FindUser(users', ulast'.id).exc = NoRaise]_vars

\* A user was removed from a registry of two, the other user stays, and the
\* listeners received the removed record.
C17_Witness ==
    /\ ulast.op = "remove_user"
    /\ ulast.ok = TRUE
    /\ Len(users) = 1
    /\ max_users = 2
    /\ Len(ulast.delivered) = MaxListeners
    /\ ulast.delivered[1].event = USER_REMOVED
    /\ ulast.delivered[1].user.id = ulast.id
    /\ users[1].id # ulast.id

\* This step is an add_user call that adds: new identifier, below capacity.
AddEvent ==
    /\ UserCallStep("add_user")
    /\ ~HasUser(users, ulast'.id)
    /\ Len(users) < max_users

\* This step is a remove_user call that removes: the identifier is present.
RemoveEvent == UserCallStep("remove_user") /\ HasUser(users, ulast'.id)

\* The positions of the listeners that raise, in order.
RaisingPositions(ls) ==
    SelectSeq([i \in 1..Len(ls) |-> i], LAMBDA i : ListenerRaises(ls[i]))

\* C18: for every add or remove event each registration of a listener is
\* called exactly once, in registration order, with that event, whether or
\* not an earlier listener raised an Exception; each such Exception is logged
\* and none reaches the caller of add_user or remove_user: the call returns
\* True and the registry keeps the addition or the removal.
C18_AllListenersNotified ==
    [][(AddEvent \/ RemoveEvent) =>
          /\ [i \in 1..Len(ulast'.delivered) |-> ulast'.delivered[i].listener]
                 = listeners
          /\ \A i \in 1..Len(ulast'.delivered) :
                /\ ulast'.delivered[i].pos = i
                /\ ulast'.delivered[i].event =
                       (IF AddEvent THEN USER_ADDED ELSE USER_REMOVED)
                /\ ulast'.delivered[i].user.id = ulast'.id
          /\ ulast'.logged = RaisingPositions(listeners)
          /\ ulast'.exc = NoRaise
          /\ ulast'.ok = TRUE
          /\ HasUser(users', ulast'.id) <=> AddEvent
          /\ Len(users') = (IF AddEvent THEN Len(users) + 1 ELSE Len(users) - 1)
          /\ listeners' = listeners]_vars

\* A user was removed, after being added, from a registry whose first
\* listener raises and whose second does not: both were called, the error
\* of the first was logged, and the call returned True.
C18_Witness ==
    /\ listeners = <<"raiser", "ok">>
    /\ ulast.op = "remove_user"
    /\ ulast.ok = TRUE
    /\ ulast.exc = NoRaise
    /\ Len(ulast.delivered) = 2
    /\ ulast.delivered[2].listener = "ok"
    /\ ulast.logged = <<1>>
    /\ ~HasUser(users, ulast.id)

\* C19: find_user(id) returns the record last added under id (by an add_user
\* that returned True) and not removed since (by a remove_user that returned
\* True), and None, never an exception, when there is none; it changes
\* neither the registry nor the listener list and calls no listener. The
\* record stored under an identifier is empty at first, becomes the added
\* record on a successful add, becomes empty on a successful remove, and is
\* left alone by every other call; find_user returns exactly it.
C19_FindUser ==
    /\ \A id \in Ids : Stored(users, id) = {}
    /\ [][(\A id \in Ids :
              Stored(users', id) =
                  IF UserCallStep("add_user") /\ ulast'.ok /\ ulast'.id = id
                  THEN {ulast'.user[1]}
                  ELSE IF UserCallStep("remove_user") /\ ulast'.ok /\ ulast'.id = id
                  THEN {}
                  ELSE Stored(users, id))
          /\ (UserCallStep("find_user") =>
                 /\ ulast'.exc = NoRaise
                 /\ Len(ulast'.found) <= 1
                 /\ {ulast'.found[k] : k \in 1..Len(ulast'.found)}
                        = Stored(users, ulast'.id)
                 /\ users' = users
                 /\ listeners' = listeners
                 /\ max_users' = max_users
                 /\ NoListenerCalled)]_vars

\* find_user has just returned the second of two stored records, on a
\* registry with listeners.
C19_Witness ==
    /\ ulast.op = "find_user"
    /\ Len(users) = 2
    /\ ulast.found = <<users[2]>>
    /\ users[2].id = ulast.id
    /\ listeners # <<>>

\* The facade's operations.
FacadeOps == {"create_user", "get_user", "update_user", "delete_user", "list_users"}

\* C20: no facade operation (create_user, get_user, update_user, delete_user,
\* list_users) lets an error escape as a raised exception: every call returns
\* an envelope, and a failure of the registry or of a user setter (the
\* capacity error on create, a validation failure on update) comes back as an
\* error envelope.
C20_NoErrorEscapes ==
    ulast.op \in FacadeOps =>
        /\ ulast.exc = NoRaise
        /\ ulast.resp # None
        /\ ulast.resp[1].status \in {STATUS_SUCCESS, STATUS_ERROR}

\* The request of the facade call recorded last by this step.
Req == ulast'.req[1]

\* C21: create_user with a missing or empty name or email returns an error
\* envelope and does not delegate to the registry: the registry and its
\* listener list are unchanged and no listener is called.
C21_CreateRejectsBlank ==
    [][(UserCallStep("create_user")
        /\ (Falsy(Req.name, "") \/ Falsy(Req.email, <<>>))) =>
          /\ ulast'.exc = NoRaise
          /\ ulast'.resp # None
          /\ ulast'.resp[1].status = STATUS_ERROR
          /\ users' = users
          /\ listeners' = listeners
          /\ NoListenerCalled]_vars

\* A registry with listeners and room has just answered a create_user whose
\* request names a user but carries an empty email.
C21_Witness ==
    /\ ulast.op = "create_user"
    /\ ulast.req[1].name = <<"A">>
    /\ ulast.req[1].email = <<<<>>>>
    /\ ulast.resp[1].message.text = "Name and email are required"
    /\ listeners # <<>>
    /\ Len(users) < max_users

\* C22: after any sequence of facade create_user and update_user calls, every
\* user record stored in the registry has a non-empty identifier, a non-empty
\* name and an email that matches the validation pattern.
C22_StoredUsersValid ==
    \A i \in 1..Len(users) :
        /\ users[i].id # ""
        /\ users[i].name # ""
        /\ ValidateEmail(users[i].email)

\* C23: after any sequence of facade create_user and update_user calls, the
\* role of every stored user is one of the enumeration admin, user, guest.
C23_RolesEnumerated == \A i \in 1..Len(users) : users[i].role \in UserRole

\* C24: the identifier of a user record never changes after the record is
\* created: no operation on the record or the registry alters it, so each
\* registry key keeps naming the record whose id equals that key.
C24_IdNeverChanges == \A i \in 1..Len(users) : users[i].id = RecordKeys[i]

\* The setters of a user record.
SetterOps == {"set_id", "set_name", "set_email", "set_age"}

\* What a setter's validation accepts: a non-empty id, a non-empty name, an
\* email that matches the pattern, an age of 0 or more.
ArgValid(op, arg) ==
    CASE op = "set_id" -> arg # ""
      [] op = "set_name" -> arg # ""
      [] op = "set_email" -> ValidateEmail(arg)
      [] op = "set_age" -> arg >= 0

\* The field of record u a setter stores into.
FieldOf(op, u) ==
    CASE op = "set_id" -> u.id
      [] op = "set_name" -> u.name
      [] op = "set_email" -> u.email
      [] op = "set_age" -> u.age

\* C25: every setter of a user record (set_name, set_email, set_age, set_id)
\* validates its argument before storing it; when it succeeds it stores the
\* argument and updates the record's last-modified timestamp, and when
\* validation fails it raises and leaves the field and the timestamp (the
\* whole record) unchanged.
C25_SettersValidateAndStamp ==
    [][(now' = now /\ ulast'.op \in SetterOps) =>
          LET op == ulast'.op
              arg == ulast'.req[1]
              i == CHOOSE k \in 1..Len(RecordKeys) : RecordKeys[k] = ulast'.id
          IN  IF ArgValid(op, arg)
              THEN /\ ulast'.exc = NoRaise
                   /\ FieldOf(op, users'[i]) = (IF op = "set_age" THEN <<arg>> ELSE arg)
                   /\ users'[i].updated_at = <<now>>
              ELSE /\ ulast'.exc # NoRaise
                   /\ users'[i] = users[i]]_vars

\* update_user's effect on the mapping apart from the target's timestamp:
\* the sequence of keys is unchanged, every record but the one under the
\* given identifier is unchanged, and of that record the identifier, the
\* creation time and every field whose key is absent from the request are
\* unchanged.
UpdateFrame ==
    /\ Len(users') = Len(users)
    /\ \A i \in 1..Len(users) :
        /\ users'[i].id = users[i].id
        /\ users[i].id # ulast'.id => users'[i] = users[i]
        /\ users'[i].created_at = users[i].created_at
        /\ Req.name = None => users'[i].name = users[i].name
        /\ Req.email = None => users'[i].email = users[i].email
        /\ Req.role = None => users'[i].role = users[i].role
        /\ Req.age = None => users'[i].age = users[i].age

\* C26 as stated: update_user changes only the fields present in the
\* request: every field of the user that is absent from the request (the
\* last-modified timestamp included, which no request carries), and every
\* other user in the registry, is unchanged, and the registry's key set is
\* unchanged.
C26_UpdateChangesOnlyRequested ==
    [][UserCallStep("update_user") =>
          /\ UpdateFrame
          /\ \A i \in 1..Len(users) : users'[i].updated_at = users[i].updated_at]_vars

\* C26, amended: update_user changes only the fields present in the request
\* and, when the request carries a name or an email, the user's last-modified
\* timestamp, which becomes the time of the call: every other field of the
\* user, and every other user in the registry, is unchanged, and the
\* registry's key set is unchanged.
C26_UpdateFrameButTimestamp ==
    [][UserCallStep("update_user") =>
          /\ UpdateFrame
          /\ \A i \in 1..Len(users) :
                users'[i].updated_at # users[i].updated_at =>
                    /\ Req.name # None \/ Req.email # None
                    /\ users'[i].updated_at = <<now>>]_vars

\* update_user with only a name has just renamed the second of two stored
\* users, whose role is not the default, and stamped it.
C26_Witness ==
    /\ ulast.op = "update_user"
    /\ ulast.exc = NoRaise
    /\ ulast.req[1] = Request(<<"B">>, None, None, None)
    /\ Len(users) = 2
    /\ users[2].id = ulast.id
    /\ users[2].name = "B"
    /\ users[2].role = "root"
    /\ users[2].updated_at = <<now>>
    /\ users[1].updated_at = None

\* The users list_users pages over: those of the role asked for, all of them
\* when no role (None or the empty text) is given.
Matching(us, role) ==
    IF role = None \/ role[1] = "" THEN us
    ELSE SelectSeq(us, LAMBDA u : u.role = role[1])

\* The records at 0-based positions offset .. offset+limit-1 of list, as far
\* as the list goes.
Page(list, offset, limit) ==
    [j \in 1..(IF Len(list) - offset < 0 THEN 0
               ELSE IF Len(list) - offset < limit THEN Len(list) - offset
               ELSE limit) |-> ToDict(list[offset + j])]

\* C27: the list operation clamps its paging arguments: whatever limit and
\* offset are requested, the page returned is the one selected by a limit
\* within 1..1000 and an offset of 0 or more, so that a negative offset or a
\* limit of 0 or below neither selects records from the end of the list nor
\* gives an empty page.
C27_ListClampsPaging ==
    ulast.op = "list_users" =>
        LET q == ulast.req[1]
            applied == ParsePaginationParams(q.limit, q.offset)
        IN  ulast.resp[1].data[1].users =
                Page(Matching(users, q.role), applied.offset, applied.limit)

\* C28: list_users(role, limit, offset) with 0 <= offset and 1 <= limit
\* returns exactly the records at insertion-order positions offset ..
\* offset+limit-1 (counted from 0, as far as there are any) of the registry's
\* users that match the role filter, all users when there is no filter, and
\* reports total as the number of matching users before paging; the message
\* counts the page, the registry is not changed; with 5 users, limit 2 and
\* offset 1 it returns positions 1 and 2 and total 5.
C28_ListPaging ==
    (ulast.op = "list_users" /\ ulast.req[1].offset >= 0 /\ ulast.req[1].limit >= 1) =>
        LET q == ulast.req[1]
            d == ulast.resp[1].data[1]
            matching == Matching(users, q.role)
        IN  /\ ulast.resp[1].status = STATUS_SUCCESS
            /\ d.users = Page(matching, q.offset, q.limit)
            /\ d.total = Len(matching)
            /\ ulast.resp[1].message.count = Len(d.users)
            /\ (Len(users) = 5 /\ q.role = None /\ q.limit = 2 /\ q.offset = 1) =>
                   /\ d.users = <<ToDict(users[2]), ToDict(users[3])>>
                   /\ d.total = 5

\* list_users(limit=2, offset=1) over 5 users of both roles has returned two
\* records and total 5.
C28_Witness ==
    /\ ulast.op = "list_users"
    /\ ulast.req[1] = [role |-> None, limit |-> 2, offset |-> 1]
    /\ Len(users) = 5
    /\ \E i, j \in 1..5 : users[i].role # users[j].role
    /\ Len(ulast.resp[1].data[1].users) = 2
    /\ ulast.resp[1].data[1].users[1].id = "k2"
    /\ ulast.resp[1].data[1].total = 5

\* C29: clear_cache removes every entry and increases the eviction counter
\* by exactly the number of entries that were in the cache when it was
\* called, whatever calls preceded it (also when cache_stats was not read
\* since the last insert).
C29_ClearCountsEntries ==
    [][(now' = now /\ last'.op = "clear_cache") =>
          /\ cache' = <<>>
          /\ stats'.evictions = stats.evictions + Len(cache)]_vars

\* This step is a process call that inserts: a miss that passed validation.
InsertStep ==
    /\ ProcessCallStep
    /\ stats'.misses = stats.misses + 1
    /\ last'.exc = NoRaise

\* The entries accounted for: the live ones and those counted as evicted.
Accounted(c, s) == Len(c) + s.evictions

\* C30: after any sequence of process and remove_expired calls on a processor
\* of cache_size >= 1, every entry ever inserted is accounted for: the number
\* of inserts (misses that passed validation) equals the number of live
\* entries plus the eviction counter. The sum is 0 at first, grows by one
\* with each insert and is kept by every other call; so it never exceeds the
\* miss counter and, without a validator, equals it.
C30_InsertsAccounted ==
    /\ [](max_cache_size >= 1 =>
            /\ Accounted(cache, stats) <= stats.misses
            /\ ~validator.present => Accounted(cache, stats) = stats.misses)
    /\ [][(max_cache_size >= 1 /\ now' = now) =>
            Len(cache') + stats'.evictions =
                Accounted(cache, stats) + (IF InsertStep THEN 1 ELSE 0)]_vars

\* Three inserts, one of them evicting, and a rejected miss were followed by
\* a remove_expired that removed one entry and kept one.
C30_Witness ==
    /\ last.op = "remove_expired"
    /\ last.count >= 1
    /\ Len(cache) >= 1
    /\ stats.evictions >= 2
    /\ validator.present
    /\ stats.misses > Accounted(cache, stats)

\* The place, in update_user's order name (1), email (2), role (3), age (4),
\* of the first field of request q whose setter rejects its value; 5 when
\* none does. The role has no setter and is never rejected.
RejectedAt(q) ==
    IF q.name # None /\ q.name[1] = "" THEN 1
    ELSE IF q.email # None /\ ~ValidateEmail(q.email[1]) THEN 2
    ELSE IF q.age # None /\ q.age[1] < 0 THEN 4
    ELSE 5

\* C31: update_user applies the fields present in the request in the fixed
\* order name, email, role, age and is not atomic: when the setter of one
\* field rejects its value (the call then ends with that setter's error),
\* the fields earlier in that order keep their new values, the rejected
\* field and all later fields keep their old values; when no setter rejects,
\* every field present takes its new value.
C31_UpdateInOrderNotAtomic ==
    [][(UserCallStep("update_user") /\ HasUser(users, ulast'.id)) =>
          LET old == UserAt(users, ulast'.id)
              new == UserAt(users', ulast'.id)
              stop == RejectedAt(Req)
          IN  /\ HasUser(users', ulast'.id)
              /\ new.name = (IF Req.name # None /\ stop > 1 THEN Req.name[1]
                             ELSE old.name)
              /\ new.email = (IF Req.email # None /\ stop > 2 THEN Req.email[1]
                              ELSE old.email)
              /\ new.role = (IF Req.role # None /\ stop > 3 THEN Req.role[1]
                             ELSE old.role)
              /\ new.age = (IF Req.age # None /\ stop > 4 THEN Req.age
                            ELSE old.age)
              /\ ulast'.exc = (CASE stop = 1 -> NameEmpty
                                 [] stop = 2 -> InvalidEmail
                                 [] stop = 4 -> NegativeAge
                                 [] OTHER -> NoRaise)]_vars

\* update_user with a new name, an email its setter rejects and a role has
\* just renamed the user and left its email and role as they were.
C31_Witness ==
    /\ ulast.op = "update_user"
    /\ ulast.req[1] = Request(<<"B">>, <<BadEmail>>, <<"root">>, None)
    /\ ulast.exc = InvalidEmail
    /\ HasUser(users, ulast.id)
    /\ UserAt(users, ulast.id).name = "B"
    /\ UserAt(users, ulast.id).email = GoodEmail
    /\ UserAt(users, ulast.id).role = "user"

\* The validator, if any, accepts input d.
Accepts(d) == ~validator.present \/ Validate(validator, d)

\* process_batch_async has completed: every task went through the semaphore
\* and finished with a result, every permit is back and nobody waits.
Completed ==
    /\ Done = 1..Len(task)
    /\ \A i \in 1..Len(task) : task[i].exc = NoRaise /\ Len(task[i].ret) = 1
    /\ sem = concurrency
    /\ waiters = <<>>

\* C32: for every finite list of inputs the validator accepts and every
\* concurrency >= 1, on a valid processor (cache_size >= 1),
\* process_batch_async eventually completes: every task eventually acquires
\* the semaphore, every acquired permit is released, and one result per
\* input is returned.
C32_BatchAsyncCompletes ==
    (/\ concurrency >= 1
     /\ max_cache_size >= 1
     /\ \A i \in 1..Len(data_list) : Accepts(data_list[i]))
        => <>[]Completed

\* Three inputs a validator accepts were processed under concurrency 1, two
\* of the tasks after waiting for the permit, and the call has completed.
C32_Witness ==
    /\ Len(task) = 3
    /\ concurrency = 1
    /\ validator.present
    /\ max_cache_size >= 1
    /\ Completed

====
